---- MODULE Spec2Model ----
(***************************************************************************)
(* Model of the model_management package: the Model entity (model.py) and  *)
(* the ModelRegistry collection with its JSON persistence (registry.py).   *)
(*                                                                         *)
(* Timestamps are integers counting microsecond ticks; UsPerSec ticks make *)
(* one second, so that isoformat()'s optional fractional part is modelled. *)
(* A text produced by isoformat() is the sequence of its numeric parts:    *)
(* <<seconds>> or <<seconds, microseconds>>.                               *)
(***************************************************************************)
EXTENDS Integers, Sequences, FiniteSets, TLC

VARIABLES
    models,   \* ModelRegistry._models: the ordered list of Model objects
    file,     \* the registry file on disk: whether it exists, and its text
    saved,    \* history: the list written by the last save_to_file that ran to its end
    entity,   \* the outcome of the latest Model(...) call (entity specification)
    snapshot, \* the list object the latest get_all_models call returned to its caller
    live,     \* history: the keys added or loaded with success and not removed
              \* with success since, in the order they came in
    cli,      \* the command-line processes: where each is in its command, the
              \* registry it holds, its outcome and its exit code
    last      \* history: the latest operation, its inputs and its outcome

vars == <<models, file, saved, entity, snapshot, live, cli, last>>

----------------------------------------------------------------------------
(* Bounds *)

MaxTick == 3
UsPerSec == 2
MaxModels == 2
MaxProcs == 2

Ticks == 0..MaxTick
Names == {"m", "n"}
Versions == {"1.0", "2.0"}
Procs == 1..MaxProcs

----------------------------------------------------------------------------
(* model.py *)

None == -1

ACTIVE == "active"
DEPRECATED == "deprecated"
RETIRED == "retired"
ModelStatus == {ACTIVE, DEPRECATED, RETIRED}

OptTicks == Ticks \cup {None}

ErrDeprecation == "ValueError: Deprecation date cannot be before creation date"
ErrRetirement == "ValueError: Retirement date cannot be before deprecation date"
ErrCreation == "ValueError: Retirement date cannot be before creation date"
ErrIsoformat == "ValueError: Invalid isoformat string"
ErrKey == "KeyError"
ErrType == "TypeError"
ErrDuplicate == "ValueError: Model already exists in registry"
ErrJSONDecode == "JSONDecodeError"
ErrFileNotFound == "FileNotFoundError"
ErrOS == "OSError"
OK == "ok"

\* Model._validate_dates, with its first two checks in the other order.
validate_dates_swapped(self) ==
    IF /\ self.retirement_date # None
       /\ self.deprecation_date # None
       /\ self.retirement_date < self.deprecation_date
    THEN ErrRetirement
    ELSE IF /\ self.deprecation_date # None
            /\ self.deprecation_date < self.created_date
    THEN ErrDeprecation
    ELSE IF /\ self.retirement_date # None
            /\ self.deprecation_date = None
            /\ self.retirement_date < self.created_date
    THEN ErrCreation
    ELSE OK

\* Model._validate_dates, without the check of the retirement date against the
\* deprecation date.
validate_dates_without_second(self) ==
    IF /\ self.deprecation_date # None
       /\ self.deprecation_date < self.created_date
    THEN ErrDeprecation
    ELSE IF /\ self.retirement_date # None
            /\ self.deprecation_date = None
            /\ self.retirement_date < self.created_date
    THEN ErrCreation
    ELSE OK

\* Model._validate_dates: the first failing check raises; OK when none does.
validate_dates(self) ==
    IF /\ self.deprecation_date # None
       /\ self.deprecation_date < self.created_date
    THEN ErrDeprecation
    ELSE IF /\ self.retirement_date # None
            /\ self.deprecation_date # None
            /\ self.retirement_date < self.deprecation_date
    THEN ErrRetirement
    ELSE IF /\ self.retirement_date # None
            /\ self.deprecation_date = None
            /\ self.retirement_date < self.created_date
    THEN ErrCreation
    ELSE OK

\* Model.__init__: created_date defaults to now; validation runs last.
\* The result is [err, model]; no object exists when err # OK.
Model(name, version, created_date, deprecation_date, retirement_date, now) ==
    LET self == [name |-> name,
                 version |-> version,
                 created_date |-> IF created_date # None THEN created_date ELSE now,
                 deprecation_date |-> deprecation_date,
                 retirement_date |-> retirement_date]
    IN [err |-> validate_dates(self), model |-> self]

\* Model.get_status, with the deprecation test taken first.
get_status_deprecation_first(self, reference_date, now) ==
    LET ref_date == IF reference_date # None THEN reference_date ELSE now
    IN IF self.deprecation_date # None /\ ref_date >= self.deprecation_date
       THEN DEPRECATED
       ELSE IF self.retirement_date # None /\ ref_date >= self.retirement_date
       THEN RETIRED
       ELSE ACTIVE

\* Model.get_status, with the comparisons the wrong way round.
get_status_flipped(self, reference_date, now) ==
    LET ref_date == IF reference_date # None THEN reference_date ELSE now
    IN IF self.retirement_date # None /\ ref_date <= self.retirement_date
       THEN RETIRED
       ELSE IF self.deprecation_date # None /\ ref_date <= self.deprecation_date
       THEN DEPRECATED
       ELSE ACTIVE

\* Model.get_status, with strict comparisons.
get_status_strict(self, reference_date, now) ==
    LET ref_date == IF reference_date # None THEN reference_date ELSE now
    IN IF self.retirement_date # None /\ ref_date > self.retirement_date
       THEN RETIRED
       ELSE IF self.deprecation_date # None /\ ref_date > self.deprecation_date
       THEN DEPRECATED
       ELSE ACTIVE

\* Model.get_status
get_status(self, reference_date, now) ==
    LET ref_date == IF reference_date # None THEN reference_date ELSE now
    IN IF self.retirement_date # None /\ ref_date >= self.retirement_date
       THEN RETIRED
       ELSE IF self.deprecation_date # None /\ ref_date >= self.deprecation_date
       THEN DEPRECATED
       ELSE ACTIVE

\* datetime.isoformat(): the fractional part is written only when it is not zero.
isoformat(t) ==
    IF t % UsPerSec = 0
    THEN <<t \div UsPerSec>>
    ELSE <<t \div UsPerSec, t % UsPerSec>>

\* datetime.fromisoformat(): [err, value]; a text of any other shape is rejected.
fromisoformat(s) ==
    IF Len(s) = 1 /\ s[1] >= 0
    THEN [err |-> OK, value |-> s[1] * UsPerSec]
    ELSE IF Len(s) = 2 /\ s[1] >= 0 /\ s[2] >= 0 /\ s[2] < UsPerSec
    THEN [err |-> OK, value |-> s[1] * UsPerSec + s[2]]
    ELSE [err |-> ErrIsoformat, value |-> None]

\* JSON values of the nullable date fields: a string or null.
JStr(s) == [kind |-> "str", text |-> s]
JNull == [kind |-> "null", text |-> <<>>]

\* Model.to_dict, writing every timestamp to whole seconds.
to_dict_seconds(self, now) ==
    [name |-> self.name,
     version |-> self.version,
     created_date |-> JStr(<<self.created_date \div UsPerSec>>),
     deprecation_date |-> IF self.deprecation_date # None
                          THEN JStr(<<self.deprecation_date \div UsPerSec>>)
                          ELSE JNull,
     retirement_date |-> IF self.retirement_date # None
                         THEN JStr(<<self.retirement_date \div UsPerSec>>)
                         ELSE JNull,
     status |-> get_status(self, None, now)]

\* Model.to_dict
to_dict(self, now) ==
    [name |-> self.name,
     version |-> self.version,
     created_date |-> JStr(isoformat(self.created_date)),
     deprecation_date |-> IF self.deprecation_date # None
                          THEN JStr(isoformat(self.deprecation_date))
                          ELSE JNull,
     retirement_date |-> IF self.retirement_date # None
                         THEN JStr(isoformat(self.retirement_date))
                         ELSE JNull,
     status |-> get_status(self, None, now)]

\* data.get(key) is truthy: the key is present and holds a non-empty string.
truthy(data, key) ==
    /\ key \in DOMAIN data
    /\ data[key].kind = "str"
    /\ data[key].text # <<>>

\* datetime.fromisoformat(data[key]) for a key that is present.
parse_field(data, key) ==
    IF data[key].kind # "str"
    THEN [err |-> ErrType, value |-> None]
    ELSE fromisoformat(data[key].text)

\* Model.from_dict, reading the retirement date from "deprecation_date".
from_dict_one_field(data, now) ==
    LET fail(e) == [err |-> e, model |-> [name |-> "", version |-> ""]]
    IN IF "name" \notin DOMAIN data \/ "version" \notin DOMAIN data
          \/ "created_date" \notin DOMAIN data
       THEN fail(ErrKey)
       ELSE LET created == parse_field(data, "created_date")
                deprecation == IF truthy(data, "deprecation_date")
                               THEN parse_field(data, "deprecation_date")
                               ELSE [err |-> OK, value |-> None]
            IN IF created.err # OK THEN fail(created.err)
               ELSE IF deprecation.err # OK THEN fail(deprecation.err)
               ELSE Model(data.name, data.version, created.value,
                          deprecation.value, deprecation.value, now)

\* Model.from_dict, reading data["status"] as well.
from_dict_reads_status(data, now) ==
    LET fail(e) == [err |-> e, model |-> [name |-> "", version |-> ""]]
    IN IF "name" \notin DOMAIN data \/ "version" \notin DOMAIN data
          \/ "created_date" \notin DOMAIN data \/ "status" \notin DOMAIN data
       THEN fail(ErrKey)
       ELSE LET created == parse_field(data, "created_date")
                deprecation == IF truthy(data, "deprecation_date")
                               THEN parse_field(data, "deprecation_date")
                               ELSE [err |-> OK, value |-> None]
                retirement == IF truthy(data, "retirement_date")
                              THEN parse_field(data, "retirement_date")
                              ELSE [err |-> OK, value |-> None]
            IN IF created.err # OK THEN fail(created.err)
               ELSE IF deprecation.err # OK THEN fail(deprecation.err)
               ELSE IF retirement.err # OK THEN fail(retirement.err)
               ELSE Model(data.name, data.version, created.value,
                          deprecation.value, retirement.value, now)

\* Model.from_dict, setting the attributes without running the constructor's
\* validation.
from_dict_unvalidated(data, now) ==
    LET fail(e) == [err |-> e, model |-> [name |-> "", version |-> ""]]
    IN IF "name" \notin DOMAIN data \/ "version" \notin DOMAIN data
          \/ "created_date" \notin DOMAIN data
       THEN fail(ErrKey)
       ELSE LET created == parse_field(data, "created_date")
                deprecation == IF truthy(data, "deprecation_date")
                               THEN parse_field(data, "deprecation_date")
                               ELSE [err |-> OK, value |-> None]
                retirement == IF truthy(data, "retirement_date")
                              THEN parse_field(data, "retirement_date")
                              ELSE [err |-> OK, value |-> None]
            IN IF created.err # OK THEN fail(created.err)
               ELSE IF deprecation.err # OK THEN fail(deprecation.err)
               ELSE IF retirement.err # OK THEN fail(retirement.err)
               ELSE [err |-> OK,
                     model |-> Model(data.name, data.version, created.value,
                                     deprecation.value, retirement.value, now).model]

\* Model.from_dict: the arguments are evaluated in order, then the constructor runs.
\* The "status" field is not read.
from_dict(data, now) ==
    LET fail(e) == [err |-> e, model |-> [name |-> "", version |-> ""]]
    IN IF "name" \notin DOMAIN data \/ "version" \notin DOMAIN data
          \/ "created_date" \notin DOMAIN data
       THEN fail(ErrKey)
       ELSE LET created == parse_field(data, "created_date")
                deprecation == IF truthy(data, "deprecation_date")
                               THEN parse_field(data, "deprecation_date")
                               ELSE [err |-> OK, value |-> None]
                retirement == IF truthy(data, "retirement_date")
                              THEN parse_field(data, "retirement_date")
                              ELSE [err |-> OK, value |-> None]
            IN IF created.err # OK THEN fail(created.err)
               ELSE IF deprecation.err # OK THEN fail(deprecation.err)
               ELSE IF retirement.err # OK THEN fail(retirement.err)
               ELSE Model(data.name, data.version, created.value,
                          deprecation.value, retirement.value, now)

----------------------------------------------------------------------------
(* registry.py *)

\* The value get_model returns when nothing matches (Python's None).
NoModel == [none |-> TRUE]

\* The position of the first model with this name and version; 0 when there is none.
index_of(ms, name, version) ==
    LET hits == {i \in 1..Len(ms) : ms[i].name = name /\ ms[i].version = version}
    IN IF hits = {} THEN 0 ELSE CHOOSE i \in hits : \A j \in hits : i <= j

\* ModelRegistry.get_model, comparing the name only.
get_model_by_name(ms, name, version) ==
    LET hits == {i \in 1..Len(ms) : ms[i].name = name}
    IN IF hits = {}
       THEN NoModel
       ELSE ms[CHOOSE i \in hits : \A j \in hits : i <= j]

\* ModelRegistry.get_model: the first match in list order.
get_model(ms, name, version) ==
    IF index_of(ms, name, version) = 0
    THEN NoModel
    ELSE ms[index_of(ms, name, version)]

\* ModelRegistry.add_model without the lookup that rejects a duplicate.
add_model_unchecked(ms, model) ==
    [err |-> OK, models |-> Append(ms, model)]

\* ModelRegistry.add_model, putting the model first (insert(0, model)).
add_model_front(ms, model) ==
    IF get_model(ms, model.name, model.version) # NoModel
    THEN [err |-> ErrDuplicate, models |-> ms]
    ELSE [err |-> OK, models |-> <<model>> \o ms]

\* ModelRegistry.add_model: [err, models]
add_model(ms, model) ==
    IF get_model(ms, model.name, model.version) # NoModel
    THEN [err |-> ErrDuplicate, models |-> ms]
    ELSE [err |-> OK, models |-> Append(ms, model)]

\* ModelRegistry.remove_model, returning True whether or not a model was found.
remove_model_always_true(ms, name, version) ==
    LET i == index_of(ms, name, version)
    IN IF i # 0
       THEN [result |-> TRUE,
             models |-> SubSeq(ms, 1, i - 1) \o SubSeq(ms, i + 1, Len(ms))]
       ELSE [result |-> TRUE, models |-> ms]

\* ModelRegistry.remove_model: [result, models]; list.remove drops the object found.
remove_model(ms, name, version) ==
    LET i == index_of(ms, name, version)
    IN IF i # 0
       THEN [result |-> TRUE,
             models |-> SubSeq(ms, 1, i - 1) \o SubSeq(ms, i + 1, Len(ms))]
       ELSE [result |-> FALSE, models |-> ms]

\* ModelRegistry.get_all_models: the items of the list it returns.
get_all_models(ms) == ms

\* A list object in a caller's hands: its items, and whether it is the very
\* object self._models names, so that a change to either is a change to both.
\* get_all_models returning self._models itself:
list_alias(ms) == [items |-> ms, shared |-> TRUE]

\* list.copy() in get_all_models: a new list object holding the same items.
list_copy(ms) == [items |-> ms, shared |-> FALSE]

\* No list was handed out yet.
NoSnapshot == [none |-> TRUE]

\* The caller's list after self._models was changed in place to ms
\* (list.append, list.remove).
changed_in_place(snap, ms) ==
    IF snap # NoSnapshot /\ snap.shared THEN [snap EXCEPT !.items = ms] ELSE snap

\* self._models, holding ms, after the caller's list became snap.
backing(snap, ms) ==
    IF snap.shared THEN snap.items ELSE ms

\* The caller's list after self._models was bound to another list object.
rebound(snap) ==
    IF snap # NoSnapshot /\ snap.shared THEN [snap EXCEPT !.shared = FALSE] ELSE snap

\* ModelRegistry.get_models_by_status, keeping the models whose status differs.
get_models_by_status_negated(ms, status, reference_date, now) ==
    LET keep(model) == get_status(model, reference_date, now) # status
    IN SelectSeq(ms, keep)

\* ModelRegistry.get_models_by_status, not passing reference_date on.
get_models_by_status_now(ms, status, reference_date, now) ==
    LET keep(model) == get_status(model, None, now) = status
    IN SelectSeq(ms, keep)

\* ModelRegistry.get_models_by_status
get_models_by_status(ms, status, reference_date, now) ==
    LET keep(model) == get_status(model, reference_date, now) = status
    IN SelectSeq(ms, keep)

\* ModelRegistry.get_models_by_name, stopping at the first model of that name.
get_models_by_name_first(ms, name) ==
    LET hits == {i \in 1..Len(ms) : ms[i].name = name}
    IN IF hits = {}
       THEN <<>>
       ELSE <<ms[CHOOSE i \in hits : \A j \in hits : i <= j]>>

\* ModelRegistry.get_models_by_name
get_models_by_name(ms, name) ==
    LET keep(model) == model.name = name
    IN SelectSeq(ms, keep)

\* The text json.dump writes, as the sequence of chunks it is written in:
\* the opening brace, the "models" key, one chunk per list item, the closing brace.
Chunk(t) == [tok |-> t]
Item(d) == [tok |-> "item", data |-> d]

json_dump(data) ==
    <<Chunk("{")>>
    \o (IF "models" \in DOMAIN data
        THEN <<Chunk("models")>> \o [i \in 1..Len(data.models) |-> Item(data.models[i])]
        ELSE <<>>)
    \o <<Chunk("}")>>

\* json.load: [err, data]. A text is a document when it opens and closes the
\* object and holds either nothing or the "models" key followed by its items.
json_load(text) ==
    LET n == Len(text)
        body == SubSeq(text, 2, n - 1)
        wellformed ==
            /\ n >= 2
            /\ text[1].tok = "{"
            /\ text[n].tok = "}"
            /\ \/ body = <<>>
               \/ /\ body[1].tok = "models"
                  /\ \A i \in 2..Len(body) : body[i].tok = "item"
    IN IF ~wellformed
       THEN [err |-> ErrJSONDecode, data |-> <<>>]
       ELSE IF body = <<>>
       THEN [err |-> OK, data |-> <<>>]
       ELSE [err |-> OK,
             data |-> [models |-> [i \in 1..(Len(body) - 1) |-> body[i + 1].data]]]

NoFile == [exists |-> FALSE, text |-> <<>>]

\* The text save_to_file writes when it runs to its end.
document(ms, now) ==
    json_dump([models |-> [i \in 1..Len(ms) |-> to_dict(ms[i], now)]])

\* ModelRegistry.save_to_file: [err, file]. The dictionaries are built first; then
\* the parent directory is made and the file opened for writing, which empties it;
\* then the text is written. `written` is how far the operation got: -1 when
\* mkdir or open raised, otherwise the number of chunks on disk when it ended.
save_to_file(ms, f, now, written) ==
    IF written < 0
    THEN [err |-> ErrOS, file |-> f]
    ELSE [err |-> IF written = Len(document(ms, now)) THEN OK ELSE ErrOS,
          file |-> [exists |-> TRUE, text |-> SubSeq(document(ms, now), 1, written)]]

\* The list comprehension of load_from_file: from_dict on each item in order,
\* stopping at the first that raises. [err, models]: the models built so far.
RECURSIVE from_dicts(_, _, _, _)
from_dicts(items, i, built, now) ==
    IF i > Len(items)
    THEN [err |-> OK, models |-> built]
    ELSE LET made == from_dict(items[i], now)
         IN IF made.err # OK
            THEN [err |-> made.err, models |-> built]
            ELSE from_dicts(items, i + 1, Append(built, made.model), now)

\* The assignment of load_from_file done item by item, so that the models built
\* before an exception stay in self._models.
install_incremental(ms, parsed, now) ==
    IF parsed.err # OK
    THEN [err |-> parsed.err, models |-> ms]
    ELSE from_dicts(IF "models" \in DOMAIN parsed.data THEN parsed.data.models ELSE <<>>,
                    1, <<>>, now)

\* The assignment of load_from_file as self._models.extend(...): the models
\* built are put after the ones the registry holds.
install_merge(ms, parsed, now) ==
    IF parsed.err # OK
    THEN [err |-> parsed.err, models |-> ms]
    ELSE LET built == from_dicts(IF "models" \in DOMAIN parsed.data
                                 THEN parsed.data.models
                                 ELSE <<>>,
                                 1, <<>>, now)
         IN IF built.err # OK
            THEN [err |-> built.err, models |-> ms]
            ELSE [err |-> OK, models |-> ms \o built.models]

\* self._models after the list comprehension ended as built: the new list, or
\* the old one when an exception came first.
assign(ms, built) ==
    IF built.err # OK
    THEN [err |-> built.err, models |-> ms]
    ELSE built

\* The assignment of load_from_file: self._models is assigned only once the
\* whole list is built, so an exception leaves it as it was.
install(ms, parsed, now) ==
    IF parsed.err # OK
    THEN [err |-> parsed.err, models |-> ms]
    ELSE assign(ms, from_dicts(IF "models" \in DOMAIN parsed.data
                               THEN parsed.data.models
                               ELSE <<>>,
                               1, <<>>, now))

\* ModelRegistry.load_from_file, taking a missing file for an empty registry.
load_from_file_missing_ok(ms, f, now) ==
    IF ~f.exists
    THEN [err |-> OK, models |-> <<>>]
    ELSE install(ms, json_load(f.text), now)

\* ModelRegistry.load_from_file: [err, models]
load_from_file(ms, f, now) ==
    IF ~f.exists
    THEN [err |-> ErrFileNotFound, models |-> ms]
    ELSE install(ms, json_load(f.text), now)

----------------------------------------------------------------------------
(* cli.py *)

\* load_registry, never reading the file.
load_registry_fresh(f, now) ==
    [err |-> OK, models |-> <<>>]

\* load_registry: [err, models]: a new registry, loaded from the file when the
\* file exists. An exception of load_from_file is not caught.
load_registry(f, now) ==
    IF f.exists
    THEN load_from_file(<<>>, f, now)
    ELSE [err |-> OK, models |-> <<>>]

\* The message of cmd_status and cmd_remove for a key the registry lacks.
NotFound == "not found"

\* What a command did on the registry it loaded, up to the point where it
\* saves or ends: [outcome, models, save].
\* cmd_add: the constructor, then add_model; a ValueError of either ends the
\* command before save_to_file.
cmd_add(ms, name, version, d, now) ==
    LET made == Model(name, version, d[1], d[2], d[3], now)
        added == add_model(ms, made.model)
    IN IF made.err # OK
       THEN [outcome |-> made.err, models |-> ms, save |-> FALSE]
       ELSE [outcome |-> added.err, models |-> added.models, save |-> added.err = OK]

\* cmd_remove, calling save_to_file whatever remove_model returned.
cmd_remove_always_saves(ms, name, version) ==
    LET removed == remove_model(ms, name, version)
    IN [outcome |-> IF removed.result THEN OK ELSE NotFound,
        models |-> removed.models, save |-> TRUE]

\* cmd_remove: save_to_file only when remove_model returned True.
cmd_remove(ms, name, version) ==
    LET removed == remove_model(ms, name, version)
    IN [outcome |-> IF removed.result THEN OK ELSE NotFound,
        models |-> removed.models, save |-> removed.result]

\* cmd_status: get_model and get_status; nothing is saved.
cmd_status(ms, name, version) ==
    [outcome |-> IF get_model(ms, name, version) = NoModel THEN NotFound ELSE OK,
     models |-> ms, save |-> FALSE]

\* cmd_list: get_all_models and the filters; nothing is saved.
cmd_list(ms) ==
    [outcome |-> OK, models |-> get_all_models(ms), save |-> FALSE]

----------------------------------------------------------------------------
(* Inputs *)

\* The (created, deprecation, retirement) arguments of the entities handed to a
\* registry: a full lifecycle with a fractional timestamp, and a retirement only.
RegDates == {<<0, 1, 2>>, <<1, None, 3>>}

\* The names of the models that files hold.
StoreNames == {"m"}

\* The entities a caller can hand to a registry.
Entities(names) ==
    {Model(n, v, d[1], d[2], d[3], 0).model : n \in names, v \in Versions, d \in RegDates}

\* Records of a source file that deserialize: two with the same key and
\* different dates, and one with another key.
GoodRecords ==
    {to_dict(Model("m", "1.0", 0, 1, 2, 0).model, 0),
     to_dict(Model("m", "1.0", 1, None, 3, 0).model, 0),
     to_dict(Model("m", "2.0", 0, 1, 2, 0).model, 0)}

\* Records of a source file that do not deserialize: a deprecation before the
\* creation, a missing "version", and a creation date that is not a timestamp.
BadRecords ==
    {[name |-> "m", version |-> "1.0", created_date |-> JStr(isoformat(1)),
      deprecation_date |-> JStr(isoformat(0)), retirement_date |-> JNull,
      status |-> ACTIVE],
     [name |-> "m", created_date |-> JStr(isoformat(0)),
      deprecation_date |-> JNull, retirement_date |-> JNull, status |-> ACTIVE],
     [name |-> "m", version |-> "2.0", created_date |-> JStr(<<0, 0, 0>>),
      deprecation_date |-> JNull, retirement_date |-> JNull, status |-> ACTIVE]}

SeqsUpTo(S, n) == UNION {[1..k -> S] : k \in 0..n}

\* The lists of records a source document holds: up to MaxModels records (keys
\* may repeat), of which at most one, at any position, does not deserialize.
RecordLists ==
    SeqsUpTo(GoodRecords, MaxModels)
    \cup UNION {{[rs EXCEPT ![i] = b] : i \in 1..Len(rs), b \in BadRecords} :
                   rs \in SeqsUpTo(GoodRecords, MaxModels)}

\* The files a caller can name as the source of a load: no file, a document
\* holding a list of records, a document without the "models" key, and a text
\* cut short.
SourceFiles ==
    {NoFile}
    \cup {[exists |-> TRUE, text |-> json_dump([models |-> rs])] : rs \in RecordLists}
    \cup {[exists |-> TRUE, text |-> json_dump(<<>>)],
          [exists |-> TRUE, text |-> <<Chunk("{"), Chunk("models")>>]}

----------------------------------------------------------------------------
(* Registry operations *)

NoEntity == [err |-> "none", model |-> NoModel]

\* A command-line process before main() runs its command.
NotStarted ==
    [pc |-> "start", cmd |-> "", name |-> "", version |-> "", base |-> <<>>,
     models |-> <<>>, outcome |-> "", exit |-> None, wrote |-> FALSE]
NothingSaved == [ok |-> FALSE, models |-> <<>>]

\* The keys of a list of models, in list order.
keys_of(ms) == [i \in 1..Len(ms) |-> <<ms[i].name, ms[i].version>>]

\* A list of keys without the key k.
without(keys, k) ==
    LET other(x) == x # k
    IN SelectSeq(keys, other)

Init ==
    /\ models = <<>>
    /\ file = NoFile
    /\ saved = NothingSaved
    /\ entity = NoEntity
    /\ snapshot = NoSnapshot
    /\ live = <<>>
    /\ cli = [p \in Procs |-> NotStarted]
    /\ last = [op |-> "init"]

\* registry.add_model(Model(name, version, ...)) for a model that was constructed.
AddFrom(names) ==
    \E name \in names, version \in Versions, d \in RegDates :
        LET made == Model(name, version, d[1], d[2], d[3], 0)
            res == add_model(models, made.model)
        IN /\ made.err = OK
           /\ Len(res.models) <= MaxModels
           /\ models' = res.models
           /\ snapshot' = changed_in_place(snapshot, res.models)
           /\ live' = IF res.err = OK THEN Append(live, <<name, version>>) ELSE live
           /\ last' = [op |-> "add_model", err |-> res.err,
                       name |-> name, version |-> version]
           /\ UNCHANGED <<cli, file, saved, entity>>

Add == AddFrom(Names)

\* registry.remove_model(name, version)
Remove ==
    \E name \in Names, version \in Versions :
        LET res == remove_model(models, name, version)
        IN /\ models' = res.models
           /\ snapshot' = changed_in_place(snapshot, res.models)
           /\ live' = IF res.result THEN without(live, <<name, version>>) ELSE live
           /\ last' = [op |-> "remove_model", result |-> res.result,
                       name |-> name, version |-> version]
           /\ UNCHANGED <<cli, file, saved, entity>>

\* The position of the first record of f that from_dict rejects; 0 when f is
\* missing or no document, or every record deserializes.
RECURSIVE first_bad_from(_, _)
first_bad_from(items, i) ==
    IF i > Len(items) THEN 0
    ELSE IF from_dict(items[i], 0).err # OK THEN i
    ELSE first_bad_from(items, i + 1)

first_bad(f) ==
    IF ~f.exists \/ "models" \notin DOMAIN json_load(f.text).data
    THEN 0
    ELSE first_bad_from(json_load(f.text).data.models, 1)

\* Whether f is a document with the top-level "models" key.
has_models(f) ==
    f.exists /\ "models" \in DOMAIN json_load(f.text).data

\* The records under the "models" key of f; none when there is no such key.
records_of(f) ==
    IF has_models(f) THEN json_load(f.text).data.models ELSE <<>>

\* What there is to say of a file as the source of a load: whether it exists
\* and has the "models" key, its first record that does not deserialize, and
\* its records.
source_info(f) ==
    [exists |-> f.exists, has_models |-> has_models(f),
     first_bad |-> first_bad(f), records |-> records_of(f)]

\* The source files, each with what there is to say of it.
Sources == {[file |-> f, info |-> source_info(f)] : f \in SourceFiles}

\* What the history keeps of a load that ended with err: the facts about its
\* source, and the source's records when the load succeeded.
load_outcome(info, err) ==
    [op |-> "load_from_file", err |-> err, exists |-> info.exists,
     has_models |-> info.has_models, first_bad |-> info.first_bad,
     source |-> IF err = OK THEN info.records ELSE <<>>]

\* The effect of a load_from_file that gave res, from a source with these facts.
Loaded(info, res) ==
    /\ models' = res.models
    /\ snapshot' = IF res.err = OK THEN rebound(snapshot) ELSE snapshot
    /\ live' = IF res.err = OK THEN keys_of(res.models) ELSE live
    /\ last' = load_outcome(info, res.err)
    /\ UNCHANGED <<cli, file, saved, entity>>

\* registry.load_from_file(path) for a path holding any of the source files.
\* The clock is not read: from_dict always passes a created_date.
Load ==
    \E s \in Sources : Loaded(s.info, load_from_file(models, s.file, 0))

Next == Add \/ Remove \/ Load

Spec == Init /\ [][Next]_vars

----------------------------------------------------------------------------
(* Persistence: one registry and the file it saves to and loads from *)

StoreAdd == AddFrom(StoreNames)

\* registry.save_to_file(path): the clock gives the "status" fields; the write
\* ends after any number of chunks (an I/O error or a crash) or runs to its end.
Save ==
    \E now \in Ticks, written \in -1..Len(document(models, 0)) :
        LET res == save_to_file(models, file, now, written)
        IN /\ file' = res.file
           /\ saved' = IF written < 0 THEN saved
                       ELSE IF res.err = OK THEN [ok |-> TRUE, models |-> models]
                       ELSE NothingSaved
           /\ last' = [op |-> "save_to_file", err |-> res.err, now |-> now]
           /\ UNCHANGED <<cli, models, entity, snapshot, live>>

\* registry.load_from_file(path) for the path save_to_file writes.
LoadFile ==
    Loaded(source_info(file), load_from_file(models, file, 0))

\* ModelRegistry(): a fresh, empty registry takes the place of the one in use.
NewRegistry ==
    /\ models' = <<>>
    /\ snapshot' = rebound(snapshot)
    /\ live' = <<>>
    /\ last' = [op |-> "ModelRegistry"]
    /\ UNCHANGED <<cli, file, saved, entity>>

NextStore == StoreAdd \/ Remove \/ Save \/ LoadFile \/ NewRegistry

SpecStore == Init /\ [][NextStore]_vars

----------------------------------------------------------------------------
(* The registry in memory: add, remove, look up *)

\* registry.get_model(name, version)
GetModel ==
    \E name \in Names, version \in Versions :
        /\ last' = [op |-> "get_model", name |-> name, version |-> version,
                    result |-> get_model(models, name, version)]
        /\ UNCHANGED <<cli, models, file, saved, entity, snapshot, live>>

NextMem == Add \/ Remove \/ GetModel

SpecMem == Init /\ [][NextMem]_vars

----------------------------------------------------------------------------
(* The registry fed with any dates *)

\* The (created, deprecation, retirement) arguments of any constructor call.
AnyDates == OptTicks \X OptTicks \X OptTicks

\* The one version these models have: the dates are what varies.
DatedVersions == {"1.0"}

\* registry.add_model(Model(name, version, ...)) with any dates: when the
\* constructor raises there is no model to add.
AddAnyDates ==
    \E name \in StoreNames, version \in DatedVersions, d \in AnyDates :
        LET made == Model(name, version, d[1], d[2], d[3], 0)
            res == IF made.err # OK
                   THEN [err |-> made.err, models |-> models]
                   ELSE add_model(models, made.model)
        IN /\ Len(res.models) <= MaxModels
           /\ models' = res.models
           /\ snapshot' = changed_in_place(snapshot, res.models)
           /\ live' = IF res.err = OK THEN Append(live, <<name, version>>) ELSE live
           /\ last' = [op |-> "add_model", err |-> res.err,
                       name |-> name, version |-> version]
           /\ UNCHANGED <<cli, file, saved, entity>>

\* A file holding one record with these fields, written as to_dict writes them.
one_record(name, version, d) ==
    [exists |-> TRUE,
     text |-> json_dump([models |-> <<[to_dict([name |-> name, version |-> version,
                                                created_date |-> d[1],
                                                deprecation_date |-> d[2],
                                                retirement_date |-> d[3]], 0)
                                       EXCEPT !.status = ACTIVE]>>])]

\* registry.load_from_file(path) for a file holding one record with any dates.
LoadAnyDates ==
    \E name \in StoreNames, version \in DatedVersions,
       d \in Ticks \X OptTicks \X OptTicks :
        Loaded(source_info(one_record(name, version, d)),
               load_from_file(models, one_record(name, version, d), 0))

NextDates == AddAnyDates \/ Remove \/ LoadAnyDates

SpecDates == Init /\ [][NextDates]_vars

----------------------------------------------------------------------------
(* The list get_all_models returns, in the hands of its caller *)

\* result = registry.get_all_models()
GetAllModels ==
    /\ snapshot' = list_copy(get_all_models(models))
    /\ last' = [op |-> "get_all_models"]
    /\ UNCHANGED <<cli, models, file, saved, entity, live>>

\* The caller changes the list it was given to items.
Caller(change, items) ==
    /\ snapshot' = [snapshot EXCEPT !.items = items]
    /\ models' = backing(snapshot', models)
    /\ last' = [op |-> "caller", change |-> change]
    /\ UNCHANGED <<cli, file, saved, entity, live>>

\* result.append(model)
CallerAppend ==
    \E model \in Entities(StoreNames) :
        /\ snapshot # NoSnapshot
        /\ Len(snapshot.items) <= MaxModels
        /\ Caller("append", Append(snapshot.items, model))

\* del result[0]
CallerRemove ==
    /\ snapshot # NoSnapshot
    /\ snapshot.items # <<>>
    /\ Caller("del", Tail(snapshot.items))

\* result.reverse()
CallerReverse ==
    /\ snapshot # NoSnapshot
    /\ Caller("reverse", [i \in 1..Len(snapshot.items) |->
                              snapshot.items[Len(snapshot.items) + 1 - i]])

NextList ==
    StoreAdd \/ Remove \/ GetAllModels \/ CallerAppend \/ CallerRemove \/ CallerReverse

SpecList == Init /\ [][NextList]_vars

----------------------------------------------------------------------------
(* The operations that only read *)

\* The (reference_date, clock) pairs of a status query: a reference date, which
\* leaves the clock unread, or none and the clock at any tick.
StatusTimes ==
    {<<t, 0>> : t \in Ticks} \cup {<<None, t>> : t \in Ticks}

\* registry.get_models_by_status(status, reference_date), done by deleting from
\* self._models the models of another status and returning the list.
ListByStatus_in_place ==
    \E status \in ModelStatus, at \in StatusTimes :
        /\ models' = get_models_by_status(models, status, at[1], at[2])
        /\ last' = [op |-> "get_models_by_status", status |-> status,
                    reference_date |-> at[1], found |-> Len(models')]
        /\ UNCHANGED <<cli, file, saved, entity, snapshot, live>>

\* registry.get_models_by_status(status, reference_date): the list comprehension
\* builds a new list.
ListByStatus ==
    \E status \in ModelStatus, at \in StatusTimes :
        /\ last' = [op |-> "get_models_by_status", status |-> status,
                    reference_date |-> at[1],
                    found |-> Len(get_models_by_status(models, status,
                                                       at[1], at[2]))]
        /\ UNCHANGED <<cli, models, file, saved, entity, snapshot, live>>

\* registry.get_models_by_name(name)
ListByName ==
    \E name \in Names :
        /\ last' = [op |-> "get_models_by_name", name |-> name,
                    found |-> Len(get_models_by_name(models, name))]
        /\ UNCHANGED <<cli, models, file, saved, entity, snapshot, live>>

\* model.get_status(reference_date) on a model of the registry
EntryStatus ==
    \E i \in 1..Len(models), at \in StatusTimes :
        /\ last' = [op |-> "get_status", index |-> i,
                    reference_date |-> at[1], now |-> at[2],
                    status |-> get_status(models[i], at[1], at[2])]
        /\ UNCHANGED <<cli, models, file, saved, entity, snapshot, live>>

\* model.to_dict() on a model of the registry
EntryToDict ==
    \E i \in 1..Len(models), now \in Ticks :
        /\ last' = [op |-> "to_dict", index |-> i,
                    status |-> to_dict(models[i], now).status]
        /\ UNCHANGED <<cli, models, file, saved, entity, snapshot, live>>

NextRead ==
    \/ StoreAdd
    \/ EntryStatus \/ EntryToDict
    \/ GetModel \/ GetAllModels \/ ListByStatus \/ ListByName
    \/ Save

SpecRead == Init /\ [][NextRead]_vars

----------------------------------------------------------------------------
(* Command-line processes on one registry file *)

\* The date options of the add command: a full lifecycle, and a deprecation
\* before the creation. Options that parse_date rejects are left out.
CliDates == {<<0, 1, 2>>, <<1, 0, None>>}

\* A command from its start to the point where it saves or ends: reg is what
\* load_registry gave, ran what the command did then. An exception that is
\* not caught and sys.exit(1) both end the process with exit code 1. These
\* steps touch nothing but the process's own registry, so they are one step
\* with the load. The clock only decides the "status" fields, which no load
\* reads.
Ran(p, cmd, name, version, reg, ran) ==
    /\ cli[p].pc = "start"
    /\ cli' = [cli EXCEPT ![p] =
                  IF reg.err # OK
                  THEN [pc |-> "done", cmd |-> cmd, name |-> name, version |-> version,
                        base |-> <<>>, models |-> <<>>, outcome |-> reg.err,
                        exit |-> 1, wrote |-> FALSE]
                  ELSE [pc |-> IF ran.save THEN "save" ELSE "done",
                        cmd |-> cmd, name |-> name, version |-> version,
                        base |-> reg.models, models |-> ran.models,
                        outcome |-> ran.outcome,
                        exit |-> IF ran.save THEN None
                                 ELSE IF ran.outcome = OK THEN 0 ELSE 1,
                        wrote |-> FALSE]]
    /\ last' = [op |-> cmd, proc |-> p]
    /\ UNCHANGED <<models, file, saved, entity, snapshot, live>>

\* cmd_add up to save_to_file
CmdAdd(p) ==
    \E name \in StoreNames, version \in Versions, d \in CliDates :
        Ran(p, "cmd_add", name, version, load_registry(file, 0),
            cmd_add(load_registry(file, 0).models, name, version, d, 0))

\* cmd_remove up to save_to_file
CmdRemove(p) ==
    \E name \in StoreNames, version \in Versions :
        Ran(p, "cmd_remove", name, version, load_registry(file, 0),
            cmd_remove(load_registry(file, 0).models, name, version))

\* cmd_status
CmdStatus(p) ==
    \E name \in StoreNames, version \in Versions :
        Ran(p, "cmd_status", name, version, load_registry(file, 0),
            cmd_status(load_registry(file, 0).models, name, version))

\* cmd_list
CmdList(p) ==
    Ran(p, "cmd_list", "", "", load_registry(file, 0),
        cmd_list(load_registry(file, 0).models))

\* save_to_file in cmd_add and cmd_remove, first part: mkdir and open(path, 'w'),
\* which empties the file, or raises an OSError that is not caught.
SaveOpen(p) ==
    \E opened \in BOOLEAN :
        /\ cli[p].pc = "save"
        /\ file' = save_to_file(cli[p].models, file, 0, IF opened THEN 0 ELSE -1).file
        /\ cli' = [cli EXCEPT ![p] =
                      IF opened
                      THEN [@ EXCEPT !.pc = "dump", !.wrote = TRUE]
                      ELSE [@ EXCEPT !.pc = "done", !.outcome = ErrOS, !.exit = 1]]
        /\ last' = [op |-> "open", proc |-> p]
        /\ UNCHANGED <<models, saved, entity, snapshot, live>>

\* save_to_file, second part: json.dump writes the text; the command prints
\* its message and returns.
SaveDump(p) ==
    /\ cli[p].pc = "dump"
    /\ file' = save_to_file(cli[p].models, file, 0,
                            Len(document(cli[p].models, 0))).file
    /\ cli' = [cli EXCEPT ![p] = [@ EXCEPT !.pc = "done", !.exit = 0]]
    /\ last' = [op |-> "dump", proc |-> p]
    /\ UNCHANGED <<models, saved, entity, snapshot, live>>

NextCli ==
    \E p \in Procs :
        \/ CmdAdd(p) \/ CmdRemove(p) \/ CmdStatus(p) \/ CmdList(p)
        \/ SaveOpen(p) \/ SaveDump(p)

SpecCli == Init /\ [][NextCli]_vars

----------------------------------------------------------------------------
(* Entities: construction, status, serialization *)

\* Model(name, version, created_date, deprecation_date, retirement_date).
\* Each behaviour follows one constructor call and the object it made.
Construct ==
    \E name \in Names, version \in Versions, now \in Ticks,
       created \in OptTicks, deprecation \in OptTicks, retirement \in OptTicks :
        /\ entity = NoEntity
        /\ entity' = Model(name, version, created, deprecation, retirement, now)
        /\ last' = [op |-> "Model", created_date |-> created, now |-> now,
                    deprecation_date |-> deprecation, retirement_date |-> retirement]
        /\ UNCHANGED <<cli, models, file, saved, snapshot, live>>

\* model.get_status(reference_date) on the model constructed last
GetStatus ==
    \E reference_date \in OptTicks, now \in Ticks :
        /\ entity.err = OK
        /\ last' = [op |-> "get_status", reference_date |-> reference_date, now |-> now,
                    status |-> get_status(entity.model, reference_date, now)]
        /\ UNCHANGED <<cli, models, file, saved, entity, snapshot, live>>

\* model.to_dict() on the model constructed last
ToDict ==
    \E now \in Ticks :
        /\ entity.err = OK
        /\ last' = [op |-> "to_dict", data |-> to_dict(entity.model, now)]
        /\ UNCHANGED <<cli, models, file, saved, entity, snapshot, live>>

\* Model.from_dict(data) on the dictionary to_dict returned last
FromDict ==
    \E now \in Ticks :
        /\ last.op = "to_dict"
        /\ last' = [op |-> "from_dict", data |-> last.data,
                    made |-> from_dict(last.data, now)]
        /\ UNCHANGED <<cli, models, file, saved, entity, snapshot, live>>

\* What a stored record can hold under "status": any status, or no such field.
StoredStatus == ModelStatus \cup {"absent"}

with_status(data, st) ==
    IF st = "absent"
    THEN [k \in DOMAIN data \ {"status"} |-> data[k]]
    ELSE [data EXCEPT !.status = st]

\* Model.from_dict(data) on a record as a file can hold it: the fields to_dict
\* writes for the arguments of the latest constructor call, whether or not the
\* constructor accepted them, with anything under "status". The clock is not
\* read: the record has a created_date.
FromDictRecord ==
    \E st \in StoredStatus :
        /\ entity # NoEntity
        /\ LET data == with_status(to_dict(entity.model, 0), st)
           IN last' = [op |-> "from_dict_record", data |-> data,
                       made |-> from_dict(data, 0)]
        /\ UNCHANGED <<cli, models, file, saved, entity, snapshot, live>>

NextEntity == Construct \/ GetStatus \/ ToDict \/ FromDict \/ FromDictRecord

SpecEntity == Init /\ [][NextEntity]_vars

----------------------------------------------------------------------------
(* Claims *)

Key(m) == <<m.name, m.version>>
Count(ms, name, version) ==
    Cardinality({i \in 1..Len(ms) : ms[i].name = name /\ ms[i].version = version})

\* C1 (invariant I4): in every state reachable by add_model, remove_model and
\* load_from_file, no two models of the registry have the same (name, version).
C1_UniqueKeys ==
    \A i, j \in 1..Len(models) : i # j => Key(models[i]) # Key(models[j])

\* C2: add_model of a model whose (name, version) is already in the registry
\* raises the duplicate error and changes nothing: the list is the same, get_model
\* returns the same existing model, and exactly one model has that key.
C2_DuplicateAddRejected ==
    [][(/\ last'.op = "add_model"
        /\ get_model(models, last'.name, last'.version) # NoModel)
       => /\ last'.err = ErrDuplicate
          /\ models' = models
          /\ get_model(models', last'.name, last'.version)
                 = get_model(models, last'.name, last'.version)
          /\ Count(models', last'.name, last'.version) = 1]_vars

\* C3: whatever way save_to_file ends, the file holds either what it held before
\* the call or the complete new document.
C3_SaveAtomic ==
    [][last'.op = "save_to_file"
       => \/ file' = file
          \/ file' = [exists |-> TRUE, text |-> document(models, last'.now)]]_vars

\* C4: when from_dict rejects any record of the source, load_from_file raises,
\* and a load_from_file that raises leaves the registry's list as it was.
C4_LoadAllOrNothing ==
    [][last'.op = "load_from_file"
       => /\ last'.first_bad # 0 => last'.err # OK
          /\ last'.err # OK => models' = models]_vars

C4_Witness ==
    /\ last.op = "load_from_file"
    /\ last.first_bad = 2
    /\ last.err # OK
    /\ Len(models) = 2

\* The reference time a get_status call compared against.
RefDate == IF last.reference_date # None THEN last.reference_date ELSE last.now

\* C5: for a constructed model, get_status is RETIRED iff a retirement date is
\* set and reached; otherwise DEPRECATED iff a deprecation date is set and
\* reached; otherwise ACTIVE. So it is ACTIVE before the deprecation date,
\* DEPRECATED from it up to the retirement date, RETIRED from the retirement
\* date on, and always ACTIVE without milestones.
C5_StatusDecision ==
    last.op = "get_status" =>
        LET m == entity.model
            t == RefDate
            dep == m.deprecation_date
            ret == m.retirement_date
        IN /\ last.status = RETIRED <=> (ret # None /\ t >= ret)
           /\ last.status = DEPRECATED
                <=> (~(ret # None /\ t >= ret) /\ dep # None /\ t >= dep)
           /\ last.status = ACTIVE
                <=> (~(ret # None /\ t >= ret) /\ ~(dep # None /\ t >= dep))
           /\ (dep # None /\ t < dep) => last.status = ACTIVE
           /\ (dep # None /\ t >= dep /\ (ret = None \/ t < ret))
                => last.status = DEPRECATED
           /\ (dep = None /\ ret = None) => last.status = ACTIVE

C5_Witness ==
    /\ last.op = "get_status"
    /\ last.status = DEPRECATED
    /\ entity.model.retirement_date # None
    /\ RefDate > entity.model.deprecation_date

\* C6 as claimed: at its deprecation date a model is DEPRECATED and at its
\* retirement date it is RETIRED, whatever the valid dates.
C6_BoundaryAsClaimed ==
    last.op = "get_status" =>
        /\ RefDate = entity.model.deprecation_date => last.status = DEPRECATED
        /\ RefDate = entity.model.retirement_date => last.status = RETIRED

\* C6, amended: at its retirement date a model is RETIRED; at its deprecation
\* date it is DEPRECATED unless the retirement date is the same instant, and
\* then it is RETIRED.
C6_Boundary ==
    last.op = "get_status" =>
        LET m == entity.model
        IN /\ RefDate = m.retirement_date => last.status = RETIRED
           /\ RefDate = m.deprecation_date
                => last.status = IF m.retirement_date = m.deprecation_date
                                 THEN RETIRED
                                 ELSE DEPRECATED

C6_Witness ==
    /\ last.op = "get_status"
    /\ RefDate = entity.model.deprecation_date
    /\ entity.model.retirement_date = entity.model.deprecation_date
    /\ last.status = RETIRED

\* C7: the constructor checks I1, I2, I3 in that order and the first violated
\* one gives the error; it succeeds in every other case.
C7_ValidationOrder ==
    last.op = "Model" =>
        LET created == IF last.created_date # None THEN last.created_date ELSE last.now
            dep == last.deprecation_date
            ret == last.retirement_date
        IN entity.err =
             IF dep # None /\ dep < created THEN ErrDeprecation
             ELSE IF dep # None /\ ret # None /\ ret < dep THEN ErrRetirement
             ELSE IF dep = None /\ ret # None /\ ret < created THEN ErrCreation
             ELSE OK

C7_Witness ==
    /\ last.op = "Model"
    /\ last.created_date # None
    /\ last.deprecation_date # None
    /\ last.retirement_date # None
    /\ last.deprecation_date < last.created_date
    /\ last.retirement_date < last.deprecation_date
    /\ entity.err = ErrDeprecation

\* C8: from_dict(to_dict(e)) succeeds for a constructed model e and gives a
\* model with the same name, version and three dates (None stays None).
C8_EntityRoundTrip ==
    last.op = "from_dict" =>
        /\ last.made.err = OK
        /\ last.made.model.name = entity.model.name
        /\ last.made.model.version = entity.model.version
        /\ last.made.model.created_date = entity.model.created_date
        /\ last.made.model.deprecation_date = entity.model.deprecation_date
        /\ last.made.model.retirement_date = entity.model.retirement_date

C8_Witness ==
    /\ last.op = "from_dict"
    /\ entity.model.created_date % UsPerSec # 0
    /\ entity.model.deprecation_date = None
    /\ entity.model.retirement_date # None

\* C9: a load_from_file of the file a save_to_file wrote to its end gives the
\* registry the saved keys in the saved order with the saved dates, hence the
\* same status for every model at every reference time.
C9_RegistryRoundTrip ==
    (last.op = "load_from_file" /\ saved.ok) =>
        /\ last.err = OK
        /\ Len(models) = Len(saved.models)
        /\ \A i \in 1..Len(saved.models) :
              /\ Key(models[i]) = Key(saved.models[i])
              /\ models[i].created_date = saved.models[i].created_date
              /\ models[i].deprecation_date = saved.models[i].deprecation_date
              /\ models[i].retirement_date = saved.models[i].retirement_date
              /\ \A t \in Ticks :
                    get_status(models[i], t, t) = get_status(saved.models[i], t, t)

C9_Witness ==
    /\ last.op = "load_from_file"
    /\ saved.ok
    /\ Len(models) = 2
    /\ models[1].deprecation_date # None
    /\ models[1].deprecation_date % UsPerSec # 0
    /\ models[2].deprecation_date = None

InList(m, ms) == \E j \in 1..Len(ms) : ms[j] = m
Elems(ms) == {ms[j] : j \in 1..Len(ms)}

\* C10: at every reference time each model of the registry is in exactly one of
\* the three get_models_by_status lists, and the three lists together hold
\* exactly the models of get_all_models.
C10_StatusPartition ==
    \A t \in Ticks, now \in Ticks :
        LET by(s) == get_models_by_status(models, s, t, now)
            all == get_all_models(models)
        IN /\ \A i \in 1..Len(all) :
                 Cardinality({s \in ModelStatus : InList(all[i], by(s))}) = 1
           /\ Elems(by(ACTIVE)) \cup Elems(by(DEPRECATED)) \cup Elems(by(RETIRED))
                 = Elems(all)
           /\ Len(by(ACTIVE)) + Len(by(DEPRECATED)) + Len(by(RETIRED)) = Len(all)

C10_Witness ==
    /\ Len(models) = 2
    /\ get_models_by_status(models, DEPRECATED, 1, 0) # <<>>
    /\ get_models_by_status(models, ACTIVE, 1, 0) # <<>>

\* C11: the "status" field of a stored record is never trusted: records that
\* differ only in the value or the presence of "status" deserialize to the same
\* outcome, and the status of the entity made is, at every reference time, the
\* one its timestamps give, whatever the record said.
C11_StatusNotTrusted ==
    last.op = "from_dict_record" =>
        /\ \A st \in StoredStatus :
               from_dict(with_status(last.data, st), 0) = last.made
        /\ last.made.err = OK =>
               \A t \in Ticks :
                   get_status(last.made.model, t, 0) =
                       IF entity.model.retirement_date # None
                          /\ t >= entity.model.retirement_date
                       THEN RETIRED
                       ELSE IF entity.model.deprecation_date # None
                               /\ t >= entity.model.deprecation_date
                       THEN DEPRECATED
                       ELSE ACTIVE

\* A record stored as "retired" gave an entity without dates after its creation,
\* which is active at the latest tick.
C11_Witness ==
    /\ last.op = "from_dict_record"
    /\ "status" \in DOMAIN last.data
    /\ last.data.status = RETIRED
    /\ last.made.err = OK
    /\ last.made.model.retirement_date = None
    /\ get_status(last.made.model, MaxTick, 0) = ACTIVE

\* C12: from_dict runs the constructor's validation: a record whose timestamps
\* break I1, I2 or I3 is rejected with the error the constructor raises for
\* them, in the precedence I1, I2, I3, and a record that breaks none is accepted.
C12_DeserializeValidates ==
    last.op = "from_dict_record" =>
        LET c == entity.model.created_date
            d == entity.model.deprecation_date
            r == entity.model.retirement_date
        IN /\ last.made.err = entity.err
           /\ last.made.err =
                  IF d # None /\ d < c THEN ErrDeprecation
                  ELSE IF r # None /\ d # None /\ r < d THEN ErrRetirement
                  ELSE IF r # None /\ d = None /\ r < c THEN ErrCreation
                  ELSE OK

\* A record whose deprecation is before its creation and whose retirement is
\* before its deprecation was rejected with the error of I1.
C12_Witness ==
    /\ last.op = "from_dict_record"
    /\ entity.model.deprecation_date # None
    /\ entity.model.retirement_date # None
    /\ entity.model.deprecation_date < entity.model.created_date
    /\ entity.model.retirement_date < entity.model.deprecation_date
    /\ last.made.err = ErrDeprecation

\* C13: load_from_file of a source that is structurally malformed (a document
\* without the top-level "models" key, a text that is no document, or a record
\* that lacks a required field or holds an unparsable timestamp) fails, and the
\* registry holds what it held before.
C13_MalformedLoadFails ==
    [][(/\ last'.op = "load_from_file"
        /\ last'.exists
        /\ (~last'.has_models \/ last'.first_bad # 0))
       => /\ last'.err # OK
          /\ models' = models]_vars

\* The errors load_from_file raises for a source that exists and cannot be read
\* as a registry.
ParseErrors ==
    {ErrJSONDecode, ErrKey, ErrType, ErrIsoformat,
     ErrDeprecation, ErrRetirement, ErrCreation}

stored_date(field) ==
    IF field = JNull THEN None ELSE fromisoformat(field.text).value

\* C15: after a load_from_file that succeeded the registry holds exactly the
\* entities of the source's records, in the order of the source, and none of the
\* entities it held before that the source does not hold.
C15_LoadReplaces ==
    [][(last'.op = "load_from_file" /\ last'.err = OK)
       => /\ Len(models') = Len(last'.source)
          /\ \A i \in 1..Len(models') :
                 /\ models'[i].name = last'.source[i].name
                 /\ models'[i].version = last'.source[i].version
                 /\ models'[i].created_date = stored_date(last'.source[i].created_date)
                 /\ models'[i].deprecation_date
                        = stored_date(last'.source[i].deprecation_date)
                 /\ models'[i].retirement_date
                        = stored_date(last'.source[i].retirement_date)
          /\ \A i \in 1..Len(models) :
                 (\A j \in 1..Len(last'.source) :
                      to_dict(models[i], 0) # [last'.source[j] EXCEPT !.status =
                                                  to_dict(models[i], 0).status])
                 => ~InList(models[i], models')]_vars

\* A load of a source with as many records as a registry takes, the first and
\* the last describing different entities, succeeded.
C15_Witness ==
    /\ last.op = "load_from_file"
    /\ last.err = OK
    /\ Len(last.source) = MaxModels
    /\ Len(models) = MaxModels
    /\ models[1] # models[MaxModels]

C17_Get ==
    last.op = "get_model" =>
        LET k == <<last.name, last.version>>
            found == last.result # NoModel
        IN /\ found = (\E i \in 1..Len(models) : Key(models[i]) = k)
           /\ found => Key(last.result) = k /\ InList(last.result, models)
           /\ found = (\E i \in 1..Len(live) : live[i] = k)

\* A lookup found the second of two models.
C17_Witness ==
    /\ last.op = "get_model"
    /\ Len(models) = MaxModels
    /\ last.result = models[MaxModels]
    /\ last.result # models[1]

\* C18: the list get_all_models returns is independent of the registry's own:
\* appending to it, deleting from it or reversing it leaves the registry's list
\* (what every later query and save reads) as it was, and an add_model or a
\* remove_model leaves a list returned earlier as it was.
C18_Snapshot ==
    [][/\ last'.op = "caller" => models' = models
       /\ (last'.op \in {"add_model", "remove_model"} /\ snapshot # NoSnapshot)
             => snapshot' = snapshot]_vars

\* The caller changed the list it was given, which now differs from the
\* registry's, and the registry holds a model.
C18_Witness ==
    /\ last.op = "caller"
    /\ snapshot.items # models
    /\ Len(models) > 0

\* C19: after any sequence of add_model and remove_model the registry lists its
\* models in the order of their successful adds; a successful add_model leaves
\* the models there were in place, puts the new one last and makes the list one
\* longer, also for a key that was removed before.
C19_InsertionOrder ==
    [][/\ keys_of(get_all_models(models')) = live'
       /\ (last'.op = "add_model" /\ last'.err = OK)
             => /\ Len(models') = Len(models) + 1
                /\ SubSeq(models', 1, Len(models)) = models
                /\ Key(models'[Len(models')]) = <<last'.name, last'.version>>]_vars

\* An add put a model last, behind one that was there.
C19_Witness ==
    /\ last.op = "add_model"
    /\ last.err = OK
    /\ Len(models) = MaxModels
    /\ Key(models[MaxModels]) = <<last.name, last.version>>
    /\ live = keys_of(models)

\* The positions of ms whose model has this status at the reference time t.
PositionsWith(ms, status, t) ==
    {i \in 1..Len(ms) : get_status(ms[i], t, t) = status}

\* C20: for every status and reference time, get_models_by_status returns the
\* models of get_all_models that have that status at that time, each position
\* once, in the order get_all_models lists them; the clock does not matter
\* when a reference time is given.
C20_ListByStatus ==
    \A status \in ModelStatus, t \in Ticks, now \in Ticks :
        LET all == get_all_models(models)
            res == get_models_by_status(models, status, t, now)
            pos == PositionsWith(all, status, t)
        IN /\ Len(res) = Cardinality(pos)
           /\ \A i \in pos :
                  res[Cardinality({j \in pos : j <= i})] = all[i]

\* The registry holds a model that is active at tick 1 and then one that is
\* deprecated at tick 1: the active ones are the first alone, the deprecated
\* ones the second alone.
C20_Witness ==
    /\ Len(models) = 2
    /\ get_status(models[1], 1, 1) = ACTIVE
    /\ get_status(models[2], 1, 1) = DEPRECATED
    /\ get_models_by_status(models, ACTIVE, 1, 0) = <<models[1]>>
    /\ get_models_by_status(models, DEPRECATED, 1, 0) = <<models[2]>>

\* C21: for every name, get_models_by_name returns the models of the registry
\* with that name, whatever their version, each position once and in list
\* order; it returns the empty list when no model has the name.
C21_ListByName ==
    \A name \in Names :
        LET all == get_all_models(models)
            res == get_models_by_name(models, name)
            pos == {i \in 1..Len(all) : all[i].name = name}
        IN /\ Len(res) = Cardinality(pos)
           /\ \A i \in pos :
                  res[Cardinality({j \in pos : j <= i})] = all[i]
           /\ pos = {} => res = <<>>

\* The registry holds two versions of "m" and no "n": the first name gives
\* both models in order, the second none.
C21_Witness ==
    /\ Len(models) = 2
    /\ models[1].name = "m"
    /\ models[2].name = "m"
    /\ models[1].version # models[2].version
    /\ get_models_by_name(models, "m") = models
    /\ get_models_by_name(models, "n") = <<>>

\* The place of a status in the lifecycle order active < deprecated < retired.
Rank(status) ==
    IF status = ACTIVE THEN 0 ELSE IF status = DEPRECATED THEN 1 ELSE 2

\* C24: the status of a validly constructed entity never goes back as time
\* goes on: at every time after the one get_status was asked for the status is
\* the same or a later one in the order active, deprecated, retired, and at
\* every time before it the same or an earlier one, whether the time is given
\* as the reference date or read from the clock.
C24_Monotone ==
    last.op = "get_status" =>
        \A t \in Ticks :
            /\ t >= RefDate =>
                   /\ Rank(get_status(entity.model, t, 0)) >= Rank(last.status)
                   /\ Rank(get_status(entity.model, None, t)) >= Rank(last.status)
            /\ t <= RefDate =>
                   /\ Rank(get_status(entity.model, t, 0)) <= Rank(last.status)
                   /\ Rank(get_status(entity.model, None, t)) <= Rank(last.status)

\* An entity found deprecated was active at tick 0 and is retired at the
\* latest tick.
C24_Witness ==
    /\ last.op = "get_status"
    /\ last.status = DEPRECATED
    /\ get_status(entity.model, 0, 0) = ACTIVE
    /\ get_status(entity.model, MaxTick, 0) = RETIRED

\* C25: every model a registry holds, after any add_model, remove_model and
\* load_from_file, failed or not, has its creation no later than its
\* deprecation, its deprecation no later than its retirement, and its creation
\* no later than its retirement also when it has a deprecation date, a case the
\* constructor does not check by itself.
C25_HeldEntitiesOrdered ==
    \A i \in 1..Len(models) :
        LET c == models[i].created_date
            d == models[i].deprecation_date
            r == models[i].retirement_date
        IN /\ d # None => c <= d
           /\ (d # None /\ r # None) => d <= r
           /\ r # None => c <= r

\* A load put a model with a deprecation and a retirement date in the registry.
C25_Witness ==
    /\ last.op = "load_from_file"
    /\ last.err = OK
    /\ Len(models) = 1
    /\ models[1].deprecation_date # None
    /\ models[1].retirement_date # None
    /\ models[1].created_date < models[1].retirement_date

\* The operations that are to read only.
ReadOps ==
    {"get_status", "to_dict", "get_model", "get_all_models",
     "get_models_by_status", "get_models_by_name", "save_to_file"}

\* C26: get_status, to_dict, get_model, get_all_models, get_models_by_status,
\* get_models_by_name and save_to_file leave the registry's list and every
\* field of every model in it as they were; and get_status with a reference
\* date gives the status that the model's dates give for that date, whatever
\* the clock and whatever was evaluated before.
C26_ReadOnly ==
    [][last'.op \in ReadOps
       => /\ models' = models
          /\ (last'.op = "get_status" /\ last'.reference_date # None)
                => \A now \in Ticks :
                       get_status(models[last'.index], last'.reference_date, now)
                           = last'.status]_vars

\* The second of two models was found deprecated at a reference date.
C26_Witness ==
    /\ last.op = "get_status"
    /\ last.index = 2
    /\ last.reference_date # None
    /\ last.status = DEPRECATED
    /\ Len(models) = 2

\* The keys of the records a file holds, in order; none for a file that is
\* missing, empty or no document.
file_keys(f) == keys_of(records_of(f))

\* Whether key k is among keys.
HasKey(keys, k) == \E i \in 1..Len(keys) : keys[i] = k

\* C22: nothing protects the registry file against two command-line processes.
\* A command starts from the keys the file holds when it loads, and an add
\* command that saves leaves in the file exactly those keys and its own,
\* whatever another process wrote between its load and its save, and ends with
\* exit code 0; so a state is reached where two add commands of different keys
\* both succeeded and the file lacks one of the two keys.
C22_NoConflictDetection ==
    [][\A p \in Procs :
          /\ (cli[p].pc = "start" /\ cli'[p].pc # "start")
                => keys_of(cli'[p].base) = file_keys(file)
          /\ (cli[p].pc = "dump" /\ cli'[p].pc = "done" /\ cli[p].cmd = "cmd_add")
                => /\ cli'[p].exit = 0
                   /\ file_keys(file')
                          = Append(keys_of(cli[p].base),
                                   <<cli[p].name, cli[p].version>>)]_vars

\* Two add commands of different keys ended with exit code 0, and the file
\* lacks the key of one of them.
C22_Witness ==
    \E p, q \in Procs :
        /\ p # q
        /\ cli[p].pc = "done" /\ cli[q].pc = "done"
        /\ cli[p].cmd = "cmd_add" /\ cli[q].cmd = "cmd_add"
        /\ cli[p].exit = 0 /\ cli[q].exit = 0
        /\ <<cli[p].name, cli[p].version>> # <<cli[q].name, cli[q].version>>
        /\ \A r \in Procs \ {p, q} : cli[r].pc = "start"
        /\ file.exists
        /\ HasKey(file_keys(file), <<cli[q].name, cli[q].version>>)
        /\ ~HasKey(file_keys(file), <<cli[p].name, cli[p].version>>)

\* The outcomes of a command that the command itself reports as a failure.
Failures == {ErrDeprecation, ErrRetirement, ErrCreation, ErrDuplicate, NotFound}

\* C23: a step that changes the file is a step of save_to_file in an add
\* command whose constructor and add_model succeeded (its key is new in its
\* registry) or in a remove command whose remove_model returned True (its key
\* is gone from its registry); a command that ended on a validation error, a
\* duplicate key or a key not found has exit code 1 and never wrote the file;
\* the list and status commands never write it.
C23_WriteAfterMutation ==
    [][/\ file' # file
          => \E p \in Procs :
                 LET k == <<cli[p].name, cli[p].version>>
                 IN /\ cli[p].pc \in {"save", "dump"}
                    /\ cli'[p] # cli[p]
                    /\ cli[p].outcome = OK
                    /\ \/ /\ cli[p].cmd = "cmd_add"
                          /\ ~HasKey(keys_of(cli[p].base), k)
                          /\ HasKey(keys_of(cli[p].models), k)
                       \/ /\ cli[p].cmd = "cmd_remove"
                          /\ HasKey(keys_of(cli[p].base), k)
                          /\ ~HasKey(keys_of(cli[p].models), k)
       /\ \A p \in Procs :
              /\ (cli'[p].pc = "done" /\ cli'[p].outcome \in Failures)
                    => cli'[p].exit = 1 /\ ~cli'[p].wrote
              /\ cli'[p].cmd \in {"cmd_list", "cmd_status"} => ~cli'[p].wrote
              /\ cli'[p].wrote => cli'[p].outcome = OK]_vars

\* An add command of a key the file holds ended with exit code 1 and wrote
\* nothing.
C23_Witness ==
    \E p \in Procs :
        /\ cli[p].pc = "done"
        /\ cli[p].cmd = "cmd_add"
        /\ cli[p].outcome = ErrDuplicate
        /\ cli[p].exit = 1
        /\ ~cli[p].wrote
        /\ HasKey(file_keys(file), <<cli[p].name, cli[p].version>>)

====
